---- MODULE Spec2Model ----
(***************************************************************************)
(* A model of src/SolarZ.py: the SolarZAPI client.  The state is the       *)
(* instance's fields plus a record of the last method invocation (the      *)
(* requests it issued, the response it got, what it returned).  Each       *)
(* method is one action; the server's answer is an input of the action.    *)
(***************************************************************************)
EXTENDS Integers, Sequences, FiniteSets, TLC

VARIABLES base_url, usina_id, usina_uuid, headers, call

vars == <<base_url, usina_id, usina_uuid, headers, call>>

----------------------------------------------------------------------------
(* Bounds of the inputs.                                                   *)

\* plant ids the server may send: 0..MaxId
MaxId == 1
\* longest plant list the server may send
MaxPlants == 2
\* notification pages asked for: 0..MaxPage
MaxPage == 1
\* opaque payloads of the data endpoints: 0..MaxData
MaxData == 1

----------------------------------------------------------------------------
(* Python values.  An optional value is a record, so that None, 0 and ""   *)
(* stay three different values.                                            *)

NoneInt == [some |-> FALSE, val |-> 0]
NoneStr == [some |-> FALSE, val |-> ""]
SomeInt(i) == [some |-> TRUE, val |-> i]
SomeStr(s) == [some |-> TRUE, val |-> s]

\* `not x` for an optional integer: None and 0 are falsy
PyNotInt(x) == ~x.some \/ x.val = 0
\* `not x` for an optional string: None and "" are falsy
PyNotStr(x) == ~x.some \/ x.val = ""
\* str(b).lower() for a bool b
PyBoolLower(b) == IF b THEN "true" ELSE "false"
\* dict.copy(): a new mapping with the same items
copy(d) == [k \in DOMAIN d |-> d[k]]
\* d[key] = value on a dict
SetItem(d, key, value) ==
  [k \in (DOMAIN d) \cup {key} |-> IF k = key THEN value ELSE d[k]]

----------------------------------------------------------------------------
(* What the server may answer.                                             *)

Tokens == {"abc", "xyz"}
Uuids == {"", "u-1"}
Ids == 0..MaxId
StatusCodes == {200, 401}

OptIds == {NoneInt} \cup {SomeInt(i) : i \in Ids}
OptUuids == {NoneStr} \cup {SomeStr(u) : u \in Uuids}

\* an entry of the plant list: a JSON object with optional id and uuid, or
\* something that is no object (isDict = FALSE)
PlantDicts == [isDict : {TRUE}, id : OptIds, uuid : OptUuids]
NotADict == [isDict |-> FALSE, id |-> NoneInt, uuid |-> NoneStr]
FirstEntries == PlantDicts \cup {NotADict}
\* entries after the first are drawn from a smaller set
LaterEntries == {[isDict |-> TRUE, id |-> SomeInt(MaxId), uuid |-> SomeStr("u-1")],
                 [isDict |-> TRUE, id |-> SomeInt(0), uuid |-> NoneStr]}

RECURSIVE Tails(_)
Tails(n) == IF n <= 0 THEN {<<>>}
            ELSE Tails(n - 1) \cup {<<e>> \o t : e \in LaterEntries,
                                              t \in {x \in Tails(n - 1) : Len(x) = n - 1}}
PlantLists == {<<>>} \cup {<<e>> \o t : e \in FirstEntries, t \in Tails(MaxPlants - 1)}

\* A response body.  kind: "notjson" (json() raises), "dict" (a JSON
\* object), "array" (a JSON array).  hasToken/hasError: `'token' in body`,
\* `'error' in body`.  data is the opaque payload of the data endpoints,
\* which return whatever JSON value they parse.
NoBody == [kind |-> "dict", hasToken |-> FALSE, token |-> "", hasError |-> FALSE,
           usinas |-> <<>>, data |-> 0]

\* the token's value matters only where there is a token; a body that is no
\* JSON has no fields at all
AuthBodies ==
  {[NoBody EXCEPT !.kind = "notjson"]}
  \cup {[NoBody EXCEPT !.kind = k, !.hasError = he] : k \in {"dict", "array"}, he \in BOOLEAN}
  \cup {[NoBody EXCEPT !.kind = k, !.hasToken = TRUE, !.token = t, !.hasError = he] :
          k \in {"dict", "array"}, t \in Tokens, he \in BOOLEAN}
CtxBodies ==
  {[NoBody EXCEPT !.kind = "notjson"], [NoBody EXCEPT !.kind = "array"]}
  \cup {[NoBody EXCEPT !.usinas = us] : us \in PlantLists}
DataBodies ==
  {[NoBody EXCEPT !.kind = "notjson"]}
  \cup {[NoBody EXCEPT !.data = d] : d \in 0..MaxData}

\* exc is what requests.get/post raises ("none": a response came back)
TransportErrors == {"ConnectionError", "Timeout"}
Failed(e) == [exc |-> e, status |-> 0, body |-> NoBody]
Answer(s, b) == [exc |-> "none", status |-> s, body |-> b]
NoResp == Failed("none")

AuthResponses == {Failed(e) : e \in TransportErrors}
                 \cup {Answer(s, b) : s \in StatusCodes, b \in AuthBodies}
CtxResponses == {Failed(e) : e \in TransportErrors}
                \cup {Answer(200, b) : b \in CtxBodies}
                \cup {Answer(s, b) : s \in StatusCodes \ {200}, b \in DataBodies}
DataResponses == {Failed(e) : e \in TransportErrors}
                 \cup {Answer(s, b) : s \in StatusCodes, b \in DataBodies}

----------------------------------------------------------------------------
(* Return values.                                                          *)

None == [kind |-> "None", body |-> NoBody]
True == [kind |-> "True", body |-> NoBody]
Json(b) == [kind |-> "json", body |-> b]

----------------------------------------------------------------------------
(* The try/except frame every method shares.  The body of a try block      *)
(* ends either by returning (exc = "none") or by raising exc; self is the  *)
(* instance's fields as the body left them.                                *)

Self == [headers |-> headers, usina_id |-> usina_id, usina_uuid |-> usina_uuid]

Return(v, self) == [ret |-> v, exc |-> "none", self |-> self]
Raise(e, self) == [ret |-> None, exc |-> e, self |-> self]

\* subclasses of requests.RequestException
IsRequestException(e) == e \in TransportErrors
\* subclasses of Exception: everything the bodies can raise
IsException(e) == e \in TransportErrors \cup {"ValueError", "AttributeError", "TypeError"}

\* only `except requests.RequestException`: the generic clause is missing
except_clauses_no_generic(t) ==
  IF t.exc = "none" THEN [ret |-> t.ret, raised |-> "none"]
  ELSE IF IsRequestException(t.exc) THEN [ret |-> None, raised |-> "none"]
  ELSE [ret |-> None, raised |-> t.exc]

\* except requests.RequestException: return None / except Exception: return None
except_clauses(t) ==
  IF t.exc = "none" THEN [ret |-> t.ret, raised |-> "none"]
  ELSE IF IsRequestException(t.exc) THEN [ret |-> None, raised |-> "none"]
  ELSE IF IsException(t.exc) THEN [ret |-> None, raised |-> "none"]
  ELSE [ret |-> None, raised |-> t.exc]

\* response.json(): the parsed body; a body that is no JSON raises
json_raises(resp) == resp.body.kind = "notjson"
json(resp) == resp.body

\* the record of one invocation
Invocation(op, sent, resp, t) ==
  [op |-> op, sent |-> sent, resp |-> resp, exc |-> t.exc,
   raised |-> except_clauses(t).raised, result |-> except_clauses(t).ret]

\* a method that returned before its try block
Rejected(op) ==
  [op |-> op, sent |-> <<>>, resp |-> NoResp, exc |-> "none",
   raised |-> "none", result |-> None]

\* the request goes out with the construction-time headers, not the session's
Request_default_headers(method, url, hs, params, data) ==
  [method |-> method, url |-> url,
   headers |-> [h \in {"Accept", "Content-Type", "User-Agent"} |-> hs[h]],
   params |-> params, data |-> data]

\* requests.get/post(url, headers=headers, params=..., data=.../json=...)
Request(method, url, hs, params, data) ==
  [method |-> method, url |-> url, headers |-> hs, params |-> params, data |-> data]

----------------------------------------------------------------------------
(* __init__                                                                *)

DefaultHeaders ==
  [h \in {"Accept", "Content-Type", "User-Agent"} |->
     CASE h = "Accept" -> "application/json"
       [] h = "Content-Type" -> "application/json"
       [] h = "User-Agent" -> "Mozilla/5.0"]

Init ==
  /\ base_url = "https://app.solarz.com.br"
  /\ usina_id = NoneInt
  /\ usina_uuid = NoneStr
  /\ headers = DefaultHeaders
  /\ call = Rejected("__init__")

----------------------------------------------------------------------------
(* authenticate                                                            *)

Users == {"u"}
Passwords == {"p"}

\* the token is stored even when the login is refused
authenticate_try_stores_always(resp, self) ==
  IF resp.exc # "none" THEN Raise(resp.exc, self)
  ELSE IF json_raises(resp) THEN Raise("ValueError", self)
  ELSE IF json(resp).hasToken /\ json(resp).kind = "dict"
    THEN Return(IF resp.status = 200 THEN True ELSE None,
                [self EXCEPT !.headers =
                   SetItem(self.headers, "Authorization", "Bearer " \o json(resp).token)])
  ELSE Return(None, self)

\* lines 52-73: the body of authenticate's try block
authenticate_try(resp, self) ==
  IF resp.exc # "none" THEN Raise(resp.exc, self)                \* requests.post raises
  ELSE IF json_raises(resp) THEN Raise("ValueError", self)       \* response.json() raises
  ELSE IF resp.status = 200 THEN
    IF json(resp).hasToken                                       \* 'token' in response_data
    THEN IF json(resp).kind # "dict"
         THEN Raise("AttributeError", self)                      \* list has no .get
         ELSE Return(True,
                [self EXCEPT !.headers =
                   SetItem(self.headers, "Authorization", "Bearer " \o json(resp).token)])
    ELSE Return(None, self)
  ELSE IF json(resp).hasError                                    \* 'error' in response_data
    THEN IF json(resp).kind # "dict"
         THEN Raise("TypeError", self)                           \* list['error']
         ELSE Return(None, self)
  ELSE Return(None, self)

authenticate ==
  \E username \in Users, password \in Passwords, resp \in AuthResponses :
    LET req == Request("POST", base_url \o "/cliente/authenticate", copy(headers), <<>>,
                       [username |-> username, password |-> password])
        t == authenticate_try(resp, Self)
    IN /\ call' = Invocation("authenticate", <<req>>, resp, t)
       /\ headers' = t.self.headers
       /\ usina_id' = t.self.usina_id
       /\ usina_uuid' = t.self.usina_uuid
       /\ UNCHANGED base_url

----------------------------------------------------------------------------
(* get_client_context                                                      *)

\* an empty plant list clears the stored identifiers
get_client_context_try_clears_on_empty(resp, self) ==
  IF resp.exc # "none" THEN Raise(resp.exc, self)
  ELSE IF resp.status = 200 THEN
    IF json_raises(resp) THEN Raise("ValueError", self)
    ELSE IF json(resp).kind # "dict" THEN Raise("AttributeError", self)
    ELSE LET usinas == json(resp).usinas IN
      IF Len(usinas) > 0
      THEN IF ~usinas[1].isDict
           THEN Raise("AttributeError", self)
           ELSE Return(Json(json(resp)),
                  [self EXCEPT !.usina_id = usinas[1].id,
                               !.usina_uuid = usinas[1].uuid])
      ELSE Return(Json(json(resp)),
             [self EXCEPT !.usina_id = NoneInt, !.usina_uuid = NoneStr])
  ELSE Return(None, self)

\* the uuid is taken from the last plant of the list, the id from the first
get_client_context_try_uuid_of_last(resp, self) ==
  IF resp.exc # "none" THEN Raise(resp.exc, self)
  ELSE IF resp.status = 200 THEN
    IF json_raises(resp) THEN Raise("ValueError", self)
    ELSE IF json(resp).kind # "dict" THEN Raise("AttributeError", self)
    ELSE LET usinas == json(resp).usinas IN
      IF Len(usinas) > 0
      THEN IF ~usinas[1].isDict
           THEN Raise("AttributeError", self)
           ELSE Return(Json(json(resp)),
                  [self EXCEPT !.usina_id = usinas[1].id,
                               !.usina_uuid = usinas[Len(usinas)].uuid])
      ELSE Return(Json(json(resp)), self)
  ELSE Return(None, self)

\* lines 95-116: the body of get_client_context's try block
get_client_context_try(resp, self) ==
  IF resp.exc # "none" THEN Raise(resp.exc, self)                \* requests.get raises
  ELSE IF resp.status = 200 THEN
    IF json_raises(resp) THEN Raise("ValueError", self)
    ELSE IF json(resp).kind # "dict" THEN Raise("AttributeError", self)   \* list has no .get
    ELSE LET usinas == json(resp).usinas IN
      IF Len(usinas) > 0                                         \* if usinas:
      THEN IF ~usinas[1].isDict
           THEN Raise("AttributeError", self)                    \* usinas[0].get
           ELSE Return(Json(json(resp)),
                  [self EXCEPT !.usina_id = usinas[1].id,
                               !.usina_uuid = usinas[1].uuid])
      ELSE Return(Json(json(resp)), self)
  ELSE Return(None, self)

get_client_context ==
  \E resp \in CtxResponses :
    LET req == Request("GET", base_url \o "/cliente/context", copy(headers), <<>>, <<>>)
        t == get_client_context_try(resp, Self)
    IN /\ call' = Invocation("get_client_context", <<req>>, resp, t)
       /\ headers' = t.self.headers
       /\ usina_id' = t.self.usina_id
       /\ usina_uuid' = t.self.usina_uuid
       /\ UNCHANGED base_url

----------------------------------------------------------------------------
(* The data endpoints.                                                     *)

Dates == {"2024-01-15"}
Periods == {"month", "fortnight"}
Pages == 0..MaxPage

\* `if not self.usina_id:`
id_missing(id) == PyNotInt(id)
\* `if not self.usina_uuid:`
uuid_missing(uuid) == PyNotStr(uuid)

\* lines 143-153
get_last_status_try(resp, self) ==
  IF resp.exc # "none" THEN Raise(resp.exc, self)                \* requests.get raises
  ELSE IF resp.status = 200 THEN
    IF json_raises(resp) THEN Raise("ValueError", self)          \* response.json() raises
    ELSE Return(Json(json(resp)), self)
  ELSE Return(None, self)

get_last_status ==
  \E resp \in DataResponses :
    IF id_missing(usina_id)
    THEN /\ call' = Rejected("get_last_status")
         /\ UNCHANGED <<base_url, usina_id, usina_uuid, headers>>
    ELSE
       LET req == Request("GET", base_url \o "/shareable/currently/usina",
                      copy(headers), [id |-> usina_id.val], <<>>)
           t == get_last_status_try(resp, Self)
       IN /\ call' = Invocation("get_last_status", <<req>>, resp, t)
          /\ headers' = t.self.headers
          /\ usina_id' = t.self.usina_id
          /\ usina_uuid' = t.self.usina_uuid
          /\ UNCHANGED base_url

\* lines 179-189
get_last_report_try(resp, self) ==
  IF resp.exc # "none" THEN Raise(resp.exc, self)                \* requests.get raises
  ELSE IF resp.status = 200 THEN
    IF json_raises(resp) THEN Raise("ValueError", self)          \* response.json() raises
    ELSE Return(Json(json(resp)), self)
  ELSE Return(None, self)

get_last_report ==
  \E resp \in DataResponses :
    IF uuid_missing(usina_uuid)
    THEN /\ call' = Rejected("get_last_report")
         /\ UNCHANGED <<base_url, usina_id, usina_uuid, headers>>
    ELSE
       LET req == Request("GET",
                          base_url \o "/api-sz/app/cliente/plant/" \o usina_uuid.val
                                   \o "/lastReport",
                          copy(headers), <<>>, <<>>)
           t == get_last_report_try(resp, Self)
       IN /\ call' = Invocation("get_last_report", <<req>>, resp, t)
          /\ headers' = t.self.headers
          /\ usina_id' = t.self.usina_id
          /\ usina_uuid' = t.self.usina_uuid
          /\ UNCHANGED base_url

\* lines 211-221
get_economized_try(resp, self) ==
  IF resp.exc # "none" THEN Raise(resp.exc, self)                \* requests.get raises
  ELSE IF resp.status = 200 THEN
    IF json_raises(resp) THEN Raise("ValueError", self)          \* response.json() raises
    ELSE Return(Json(json(resp)), self)
  ELSE Return(None, self)

get_economized ==
  \E resp \in DataResponses :
    LET req == Request("GET", base_url \o "/api-sz/app/cliente/home/economizados",
                   copy(headers), <<>>, <<>>)
        t == get_economized_try(resp, Self)
    IN /\ call' = Invocation("get_economized", <<req>>, resp, t)
       /\ headers' = t.self.headers
       /\ usina_id' = t.self.usina_id
       /\ usina_uuid' = t.self.usina_uuid
       /\ UNCHANGED base_url

\* lines 254-263
get_generation_day_try(resp, self) ==
  IF resp.exc # "none" THEN Raise(resp.exc, self)                \* requests.get raises
  ELSE IF resp.status = 200 THEN
    IF json_raises(resp) THEN Raise("ValueError", self)          \* response.json() raises
    ELSE Return(Json(json(resp)), self)
  ELSE Return(None, self)

get_generation_day ==
  \E date \in Dates, unite_portals \in BOOLEAN, resp \in DataResponses :
    IF id_missing(usina_id)
    THEN /\ call' = Rejected("get_generation_day")
         /\ UNCHANGED <<base_url, usina_id, usina_uuid, headers>>
    ELSE
       LET req == Request("GET", base_url \o "/api-sz/generation/day",
                      copy(headers), [usinaId |-> usina_id.val, day |-> date,
                           unitePortals |-> PyBoolLower(unite_portals)], <<>>)
           t == get_generation_day_try(resp, Self)
       IN /\ call' = Invocation("get_generation_day", <<req>>, resp, t)
          /\ headers' = t.self.headers
          /\ usina_id' = t.self.usina_id
          /\ usina_uuid' = t.self.usina_uuid
          /\ UNCHANGED base_url

\* lines 302-311
get_generation_period_try(resp, self) ==
  IF resp.exc # "none" THEN Raise(resp.exc, self)                \* requests.get raises
  ELSE IF resp.status = 200 THEN
    IF json_raises(resp) THEN Raise("ValueError", self)          \* response.json() raises
    ELSE Return(Json(json(resp)), self)
  ELSE Return(None, self)

get_generation_period ==
  \E start_date \in Dates, end_date \in Dates, period \in Periods,
     unite_months \in BOOLEAN, unite_portals \in BOOLEAN, resp \in DataResponses :
    IF id_missing(usina_id)
    THEN /\ call' = Rejected("get_generation_period")
         /\ UNCHANGED <<base_url, usina_id, usina_uuid, headers>>
    ELSE
       LET req == Request("GET", base_url \o "/api-sz/generation/period",
                      copy(headers), [usinaId |-> usina_id.val, start |-> start_date, end |-> end_date,
                           uniteMonths |-> PyBoolLower(unite_months),
                           unitePortals |-> PyBoolLower(unite_portals), period |-> period], <<>>)
           t == get_generation_period_try(resp, Self)
       IN /\ call' = Invocation("get_generation_period", <<req>>, resp, t)
          /\ headers' = t.self.headers
          /\ usina_id' = t.self.usina_id
          /\ usina_uuid' = t.self.usina_uuid
          /\ UNCHANGED base_url

\* lines 333-343
get_unidade_sums_try(resp, self) ==
  IF resp.exc # "none" THEN Raise(resp.exc, self)                \* requests.get raises
  ELSE IF resp.status = 200 THEN
    IF json_raises(resp) THEN Raise("ValueError", self)          \* response.json() raises
    ELSE Return(Json(json(resp)), self)
  ELSE Return(None, self)

get_unidade_sums ==
  \E resp \in DataResponses :
    LET req == Request("GET", base_url \o "/api-sz/app/cliente/unidades/sums",
                   copy(headers), <<>>, <<>>)
        t == get_unidade_sums_try(resp, Self)
    IN /\ call' = Invocation("get_unidade_sums", <<req>>, resp, t)
       /\ headers' = t.self.headers
       /\ usina_id' = t.self.usina_id
       /\ usina_uuid' = t.self.usina_uuid
       /\ UNCHANGED base_url

\* lines 365-375
get_unidade_credit_try(resp, self) ==
  IF resp.exc # "none" THEN Raise(resp.exc, self)                \* requests.get raises
  ELSE IF resp.status = 200 THEN
    IF json_raises(resp) THEN Raise("ValueError", self)          \* response.json() raises
    ELSE Return(Json(json(resp)), self)
  ELSE Return(None, self)

get_unidade_credit ==
  \E resp \in DataResponses :
    LET req == Request("GET", base_url \o "/api-sz/app/cliente/unidades/credit",
                   copy(headers), <<>>, <<>>)
        t == get_unidade_credit_try(resp, Self)
    IN /\ call' = Invocation("get_unidade_credit", <<req>>, resp, t)
       /\ headers' = t.self.headers
       /\ usina_id' = t.self.usina_id
       /\ usina_uuid' = t.self.usina_uuid
       /\ UNCHANGED base_url

\* lines 403-413
get_unidade_by_period_try(resp, self) ==
  IF resp.exc # "none" THEN Raise(resp.exc, self)                \* requests.get raises
  ELSE IF resp.status = 200 THEN
    IF json_raises(resp) THEN Raise("ValueError", self)          \* response.json() raises
    ELSE Return(Json(json(resp)), self)
  ELSE Return(None, self)

get_unidade_by_period ==
  \E start_date \in Dates, end_date \in Dates, resp \in DataResponses :
    LET req == Request("GET", base_url \o "/api-sz/app/cliente/unidades",
                   copy(headers), [start |-> start_date, end |-> end_date], <<>>)
        t == get_unidade_by_period_try(resp, Self)
    IN /\ call' = Invocation("get_unidade_by_period", <<req>>, resp, t)
       /\ headers' = t.self.headers
       /\ usina_id' = t.self.usina_id
       /\ usina_uuid' = t.self.usina_uuid
       /\ UNCHANGED base_url

\* lines 436-445
get_notifications_try(resp, self) ==
  IF resp.exc # "none" THEN Raise(resp.exc, self)                \* requests.get raises
  ELSE IF resp.status = 200 THEN
    IF json_raises(resp) THEN Raise("ValueError", self)          \* response.json() raises
    ELSE Return(Json(json(resp)), self)
  ELSE Return(None, self)

get_notifications ==
  \E page \in Pages, resp \in DataResponses :
    LET req == Request("GET", base_url \o "/cliente/notifications/page/" \o ToString(page),
                   copy(headers), <<>>, <<>>)
        t == get_notifications_try(resp, Self)
    IN /\ call' = Invocation("get_notifications", <<req>>, resp, t)
       /\ headers' = t.self.headers
       /\ usina_id' = t.self.usina_id
       /\ usina_uuid' = t.self.usina_uuid
       /\ UNCHANGED base_url

\* the acknowledgement is parsed and returned like a data endpoint's body
mark_all_notifications_seen_try_returns_body(resp, self) ==
  IF resp.exc # "none" THEN Raise(resp.exc, self)
  ELSE IF resp.status = 200 THEN
    IF json_raises(resp) THEN Raise("ValueError", self)
    ELSE Return(Json(json(resp)), self)
  ELSE Return(None, self)

\* the Authorization header is dropped from the session after the call
mark_all_notifications_seen_try_drops_auth(resp, self) ==
  IF resp.exc # "none" THEN Raise(resp.exc, self)
  ELSE IF resp.status = 200
    THEN Return(True, [self EXCEPT !.headers =
                         [h \in DOMAIN self.headers \ {"Authorization"} |-> self.headers[h]]])
  ELSE Return(None, self)

\* lines 467-475: the body is never parsed
mark_all_notifications_seen_try(resp, self) ==
  IF resp.exc # "none" THEN Raise(resp.exc, self)                \* requests.post raises
  ELSE IF resp.status = 200 THEN Return(True, self)
  ELSE Return(None, self)

mark_all_notifications_seen ==
  \E resp \in DataResponses :
    LET req == Request("POST", base_url \o "/cliente/notifications/seenAll", copy(headers),
                       <<>>, "{}")
        t == mark_all_notifications_seen_try(resp, Self)
    IN /\ call' = Invocation("mark_all_notifications_seen", <<req>>, resp, t)
       /\ headers' = t.self.headers
       /\ usina_id' = t.self.usina_id
       /\ usina_uuid' = t.self.usina_uuid
       /\ UNCHANGED base_url

----------------------------------------------------------------------------
Next ==
  \/ authenticate
  \/ get_client_context
  \/ get_last_status
  \/ get_last_report
  \/ get_economized
  \/ get_generation_day
  \/ get_generation_period
  \/ get_unidade_sums
  \/ get_unidade_credit
  \/ get_unidade_by_period
  \/ get_notifications
  \/ mark_all_notifications_seen

Spec == Init /\ [][Next]_vars

----------------------------------------------------------------------------
(* Vocabulary of the properties.                                           *)

False == [kind |-> "False", body |-> NoBody]

\* the value of the Authorization header of a header set ("" when absent)
AuthOf(h) == IF "Authorization" \in DOMAIN h THEN h["Authorization"] ELSE ""

\* the invocation c issued an HTTP request / got a response / got a 200
Issued(c) == Len(c.sent) >= 1
Answered(c) == Issued(c) /\ c.resp.exc = "none"
Got200(c) == Answered(c) /\ c.resp.status = 200
\* the response body of c is a JSON object with a token field
HasTokenField(c) == c.resp.body.kind = "dict" /\ c.resp.body.hasToken
\* the response body of c is a JSON object whose plant list is us
PlantListOf(c) == c.resp.body.usinas
IsContext200(c) ==
  c.op = "get_client_context" /\ Got200(c) /\ c.resp.body.kind = "dict"

NeedsPlantId == {"get_last_status", "get_generation_day", "get_generation_period"}
NeedsPlantUuid == {"get_last_report"}
DataOps == {"get_last_status", "get_last_report", "get_economized", "get_generation_day",
            "get_generation_period", "get_unidade_sums", "get_unidade_credit",
            "get_unidade_by_period", "get_notifications"}

----------------------------------------------------------------------------
\* the state right after a login that got a 200 with a token field
C1_Stored ==
  (call.op = "authenticate" /\ Got200(call) /\ HasTokenField(call))
    => /\ call.result = True
       /\ AuthOf(headers) = "Bearer " \o call.resp.body.token

\* a step taken while Authorization = "Bearer t" is stored
C1_Carried(t) ==
  AuthOf(headers) = "Bearer " \o t
    => /\ \A i \in 1..Len(call'.sent) : AuthOf(call'.sent[i].headers) = "Bearer " \o t
       /\ \/ AuthOf(headers') = "Bearer " \o t
          \/ /\ call'.op = "authenticate"
             /\ call'.result = True
             /\ HasTokenField(call')
             /\ call'.resp.body.token # t

(* C1: a successful authenticate (200, body with token t) returns True     *)
(* and stores Authorization = "Bearer t"; from then on every request of    *)
(* every method carries that header, and the header only goes away when a  *)
(* later authenticate succeeds with another token.                         *)

C1_BearerToken == [](C1_Stored) /\ [][\A t \in Tokens : C1_Carried(t)]_vars

\* a data request sent after the login carries the token
C1_Witness ==
  /\ call.op = "get_economized"
  /\ Issued(call)
  /\ AuthOf(call.sent[1].headers) = "Bearer abc"

----------------------------------------------------------------------------
(* C2: after get_client_context got a 200 whose plant list starts with     *)
(* {id: i, uuid: u}, usina_id = i and usina_uuid = u, and a get_last_status *)
(* called next issues a request with id = i.                                *)

C2_FirstPlantUsed ==
  [][(/\ IsContext200(call)
      /\ Len(PlantListOf(call)) >= 1
      /\ PlantListOf(call)[1].isDict
      /\ PlantListOf(call)[1].id.some
      /\ PlantListOf(call)[1].uuid.some)
     => /\ usina_id = PlantListOf(call)[1].id
        /\ usina_uuid = PlantListOf(call)[1].uuid
        /\ call'.op = "get_last_status"
             => /\ Issued(call')
                /\ call'.sent[1].params.id = PlantListOf(call)[1].id.val]_vars

----------------------------------------------------------------------------
(* C3: a method that needs the plant id (uuid) returns None without a      *)
(* request when the id (uuid) is unset, and issues its request when the    *)
(* id (uuid) is set.                                                       *)

C3_Precondition ==
  [][/\ call'.op \in NeedsPlantId
          => IF usina_id.some THEN Issued(call') ELSE call' = Rejected(call'.op)
     /\ call'.op \in NeedsPlantUuid
          => IF usina_uuid.some THEN Issued(call') ELSE call' = Rejected(call'.op)]_vars

----------------------------------------------------------------------------
EmptyContext200(c) == IsContext200(c) /\ Len(PlantListOf(c)) = 0

(* C4, as stated: a get_client_context that got a 200 with an empty plant  *)
(* list returns the whole context and leaves usina_id and usina_uuid       *)
(* unset, and a get_last_status called next is rejected.                   *)

C4_EmptyListUnset ==
  [][EmptyContext200(call)
       => /\ call.result = Json(call.resp.body)
          /\ ~usina_id.some /\ ~usina_uuid.some
          /\ call'.op = "get_last_status" => call' = Rejected("get_last_status")]_vars

(* C4, amended: such a call returns the whole context and leaves usina_id  *)
(* and usina_uuid as they were; when usina_id was unset before the call,   *)
(* it is unset after it and a get_last_status called next is rejected.     *)

C4_EmptyListUnchanged ==
  /\ [][EmptyContext200(call')
          => /\ call'.result = Json(call'.resp.body)
             /\ usina_id' = usina_id
             /\ usina_uuid' = usina_uuid]_vars
  /\ [][(EmptyContext200(call) /\ ~usina_id.some /\ call'.op = "get_last_status")
          => call' = Rejected("get_last_status")]_vars

\* an empty list arrives while a plant is stored, and the plant stays
C4_Witness ==
  /\ EmptyContext200(call)
  /\ call.result = Json(call.resp.body)
  /\ usina_id = SomeInt(1)
  /\ usina_uuid = SomeStr("u-1")

----------------------------------------------------------------------------
(* C5: an authenticate that does not get a 200 with a token field returns  *)
(* None and leaves the session headers exactly as they were.               *)

C5_FailedLoginKeepsHeaders ==
  [][(call'.op = "authenticate" /\ ~(Got200(call') /\ HasTokenField(call')))
       => /\ call'.result = None
          /\ headers' = headers]_vars

\* a refused login whose body carries a token, after an earlier login
C5_Witness ==
  /\ call.op = "authenticate"
  /\ Answered(call) /\ call.resp.status = 401
  /\ HasTokenField(call) /\ call.resp.body.token = "xyz"
  /\ call.result = None
  /\ AuthOf(headers) = "Bearer abc"

----------------------------------------------------------------------------
(* C6: no method lets an exception out; when the HTTP call or the handling *)
(* of the response raises, the method returns None, which is also what it  *)
(* returns for a non-200 response.                                         *)

C6_ErrorsAbsorbed ==
  /\ call.raised = "none"
  /\ call.exc # "none" => call.result = None
  /\ (Answered(call) /\ call.resp.status # 200) => call.result = None

\* a 200 whose body is no JSON
C6_Witness ==
  /\ call.op = "get_unidade_sums"
  /\ Got200(call)
  /\ call.exc = "ValueError"
  /\ call.result = None

----------------------------------------------------------------------------
\* the body has the fields the method reads
WellFormed(c) ==
  CASE c.op = "authenticate" -> HasTokenField(c)
    [] c.op = "get_client_context" ->
         /\ c.resp.body.kind = "dict"
         /\ Len(PlantListOf(c)) >= 1 => PlantListOf(c)[1].isDict
    [] OTHER -> c.resp.body.kind # "notjson"

Extracted ==
  CASE call.op = "authenticate" ->
         /\ call.result = True
         /\ AuthOf(headers) = "Bearer " \o call.resp.body.token
    [] call.op = "get_client_context" ->
         /\ call.result = Json(call.resp.body)
         /\ Len(PlantListOf(call)) >= 1
              => /\ usina_id = PlantListOf(call)[1].id
                 /\ usina_uuid = PlantListOf(call)[1].uuid
    [] OTHER -> TRUE

(* C7, as stated: on a 200 with a well-formed body every method returns    *)
(* the parsed body; authenticate and get_client_context also extract the   *)
(* token, respectively the first plant's identifiers.                      *)

C7_ParsedBodyReturned ==
  (Got200(call) /\ WellFormed(call))
    => /\ Extracted
       /\ call.op # "authenticate" => call.result = Json(call.resp.body)

(* C7, amended: the same, except that mark_all_notifications_seen returns  *)
(* True and does not read the body.                                        *)

C7_ParsedBodyOrFlag ==
  /\ (Got200(call) /\ WellFormed(call))
       => /\ Extracted
          /\ call.op \in DataOps \cup {"get_client_context"}
               => call.result = Json(call.resp.body)
  /\ (Got200(call) /\ call.op = "mark_all_notifications_seen") => call.result = True

\* the acknowledgement has a body, and True comes back
C7_Witness ==
  /\ call.op = "mark_all_notifications_seen"
  /\ Got200(call)
  /\ call.resp.body.kind = "dict" /\ call.resp.body.data = 1
  /\ call.result = True

----------------------------------------------------------------------------
(* C8: authenticate and mark_all_notifications_seen return True on         *)
(* success and False in every other case.                                  *)

C8_BooleanResult ==
  call.op \in {"authenticate", "mark_all_notifications_seen"}
    => \/ call.result = True
       \/ call.result = False

----------------------------------------------------------------------------
(* C9, as stated: usina_id and usina_uuid are both unset or both set.      *)

C9_BothOrNeither == usina_id.some <=> usina_uuid.some

(* C9, amended: usina_id and usina_uuid start unset and are only assigned  *)
(* together, by a get_client_context that got a 200 with a non-empty plant *)
(* list; each takes the value of the first plant's field and is unset when *)
(* the first plant has no such field.                                      *)

C9_AssignedTogether ==
  /\ [](call.op = "__init__" => ~usina_id.some /\ ~usina_uuid.some)
  /\ [][(usina_id' # usina_id \/ usina_uuid' # usina_uuid)
          => /\ IsContext200(call')
             /\ Len(PlantListOf(call')) >= 1
             /\ PlantListOf(call')[1].isDict]_vars
  /\ [][(/\ IsContext200(call')
         /\ Len(PlantListOf(call')) >= 1
         /\ PlantListOf(call')[1].isDict)
          => /\ usina_id' = PlantListOf(call')[1].id
             /\ usina_uuid' = PlantListOf(call')[1].uuid]_vars

\* the first plant has an id and no uuid, and a second plant has one
C9_Witness ==
  /\ IsContext200(call)
  /\ Len(PlantListOf(call)) = 2
  /\ PlantListOf(call)[2].uuid.some
  /\ usina_id.some
  /\ ~usina_uuid.some

----------------------------------------------------------------------------
(* C10: base_url never changes; the headers change only in an authenticate *)
(* that returns True; usina_id and usina_uuid change only in a             *)
(* get_client_context that got a 200.                                      *)

C10_Frame ==
  [][/\ base_url' = base_url
     /\ headers' # headers => call'.op = "authenticate" /\ call'.result = True
     /\ (usina_id' # usina_id \/ usina_uuid' # usina_uuid)
          => call'.op = "get_client_context" /\ Got200(call')]_vars

\* notifications marked as seen with a login and a plant in the session
C10_Witness ==
  /\ call.op = "mark_all_notifications_seen"
  /\ call.result = True
  /\ AuthOf(headers) = "Bearer abc"
  /\ usina_id.some /\ usina_uuid.some

----------------------------------------------------------------------------
\* the identifier the method op needs is set (methods that need none: TRUE)
PreconditionHolds(op) ==
  /\ op \in NeedsPlantId => usina_id.some
  /\ op \in NeedsPlantUuid => usina_uuid.some

\* the part of C11 that does not depend on the precondition: no invocation
\* issues more than one request, whatever the response
C11_AtMostOne == Len(call.sent) <= 1

(* C11: every invocation issues at most one HTTP request: exactly one when *)
(* the identifier the method needs is set (or it needs none), none         *)
(* otherwise; a non-200 response or a transport exception is not followed  *)
(* by a second request.                                                    *)

C11_OneRequest ==
  [][/\ Len(call'.sent) <= 1
     /\ Len(call'.sent) = (IF PreconditionHolds(call'.op) THEN 1 ELSE 0)
     /\ (call'.exc # "none" \/ (Answered(call') /\ call'.resp.status # 200))
          => Len(call'.sent) = 1]_vars

====
